---- MODULE Spec2Model ----
(***************************************************************************)
(* Finland mobility / energy / emissions pipeline.                         *)
(*   src/src/preprocess.py : three extractors, the merger, main            *)
(*   src/src/analysis.py   : derivations, lag correlation, OLS, main       *)
(* Text is a tuple of one-character strings, so that the matching rules    *)
(* of the code (whole word, substring, header pattern, numeric parsing)    *)
(* are computed and not assumed.  A nullable number is <<>> (NaN) or <<n>>.*)
(***************************************************************************)
EXTENDS Integers, Sequences, FiniteSets, TLC

VARIABLES
    p_pc,         \* preprocess main: position
    p_outdir,     \* preprocess main: out_dir exists
    emissions,    \* preprocess main: local emissions
    electricity,  \* preprocess main: local electricity
    vehicles,     \* preprocess main: local vehicles
    p_done,       \* preprocess main: extractor calls that have returned
    merged,       \* preprocess main: local merged
    p_files,      \* preprocess main: files written under out_dir
    p_err,        \* preprocess main: the exception that ended the run
    u_pc,         \* one extractor call: position
    u_which,      \* one extractor call: which extractor
    u_src,        \* one extractor call: the file it read
    u_out,        \* one extractor call: what it returned or raised
    a_pc,         \* analysis main: position
    a_in,         \* analysis main: the file at --in-csv
    df,           \* analysis main: local df
    a_files,      \* analysis main: files written under out_dir
    a_err,        \* analysis main: the exception that ended the run
    lagcorr_elec, \* analysis main: local lagcorr_elec
    lagcorr_veh,  \* analysis main: local lagcorr_veh
    ols_levels,   \* analysis main: local ols_levels
    ols_deltas,   \* analysis main: local ols_deltas
    corr_summary  \* analysis main: local corr_summary, before rounding

p_vars == <<p_pc, p_outdir, emissions, electricity, vehicles, p_done, merged, p_files, p_err>>
u_vars == <<u_pc, u_which, u_src, u_out>>
a_vars == <<a_pc, a_in, df, corr_summary, a_files, a_err, lagcorr_elec, lagcorr_veh, ols_levels, ols_deltas>>
vars == <<p_vars, u_vars, a_vars>>

----------------------------------------------------------------------------
(* Bounds of the exploration *)

\* rows of an emissions or electricity source file
MaxSrcRows == 2
\* data rows of a vehicles source file
MaxVehRows == 2
\* "YYYY Number"-like columns of a vehicles source file
MaxVehCols == 2
\* rows of the table analysis main reads
MaxRows == 5

----------------------------------------------------------------------------
(* Program constants *)

YearFirst == 2001
YearLast == 2024
\* YEARS = list(range(2001, 2025))
YEARS == YearFirst..YearLast
\* rolling(5)
RollWindow == 5
\* lagged_corr(..., 3)
MaxLag == 3

----------------------------------------------------------------------------
(* Nullable numbers *)

NaN == <<>>
Num(n) == <<n>>
IsNull(v) == v = <<>>
NotNull(v) == v # <<>>
Val(v) == v[1]

SeqsUpTo(S, n) == UNION {[1..k -> S] : k \in 0..n}

RECURSIVE SumOver(_, _)
\* the sum of f over a finite set of indices
SumOver(f, S) ==
    IF S = {} THEN 0
    ELSE LET i == CHOOSE j \in S : TRUE IN f[i] + SumOver(f, S \ {i})

----------------------------------------------------------------------------
(* Text *)

UpperCase == <<"A","B","C","D","E","F","G","H","I","J","K","L","M","N","O","P","Q","R","S","T","U","V","W","X","Y","Z">>
LowerCase == <<"a","b","c","d","e","f","g","h","i","j","k","l","m","n","o","p","q","r","s","t","u","v","w","x","y","z">>
Digits == <<"0","1","2","3","4","5","6","7","8","9">>

IsSpace(c) == c = " "
IsDigit(c) == \E i \in 1..10 : Digits[i] = c
DigitVal(c) == (CHOOSE i \in 1..10 : Digits[i] = c) - 1
IsUpper(c) == \E i \in 1..26 : UpperCase[i] = c
IsLower(c) == \E i \in 1..26 : LowerCase[i] = c
\* \w of the regular expressions
IsWordChar(c) == IsDigit(c) \/ IsUpper(c) \/ IsLower(c) \/ c = "_"

\* str.lower(), and what case=False compares
Lower(c) == IF IsUpper(c) THEN LowerCase[CHOOSE i \in 1..26 : UpperCase[i] = c] ELSE c
LowerStr(s) == [i \in 1..Len(s) |-> Lower(s[i])]

RECURSIVE CollapseSpaces(_)
\* re.sub(r"\s+", " ", c)
CollapseSpaces(s) ==
    IF s = <<>> THEN <<>>
    ELSE IF IsSpace(Head(s)) /\ Len(s) > 1 /\ IsSpace(s[2]) THEN CollapseSpaces(Tail(s))
    ELSE <<Head(s)>> \o CollapseSpaces(Tail(s))

RECURSIVE LStrip(_)
LStrip(s) == IF s # <<>> /\ IsSpace(Head(s)) THEN LStrip(Tail(s)) ELSE s

RECURSIVE RStrip(_)
RStrip(s) == IF s # <<>> /\ IsSpace(s[Len(s)]) THEN RStrip(SubSeq(s, 1, Len(s) - 1)) ELSE s

\* str.strip()
Strip(s) == RStrip(LStrip(s))

\* re.sub(r"\s+", " ", c).strip().lower()
NormalizeHeader(c) == LowerStr(Strip(CollapseSpaces(c)))
NormalizeColumns(cols) == [i \in 1..Len(cols) |-> NormalizeHeader(cols[i])]

InSeq(x, s) == \E i \in 1..Len(s) : s[i] = x

\* w occurs in s at position i
OccursAt(s, w, i) == i + Len(w) - 1 <= Len(s) /\ \A k \in 1..Len(w) : s[i + k - 1] = w[k]
\* the "in" operator on two str
Contains(s, w) == \E i \in 1..(Len(s) + 1) : OccursAt(s, w, i)
StartsWith(s, w) == OccursAt(s, w, 1)
\* str.contains(w, case=False) for a literal w
ContainsNoCase(s, w) == Contains(LowerStr(s), LowerStr(w))
\* str.contains(r"\bw\b", case=False) for a word w
ContainsWord(s, w) ==
    LET ls == LowerStr(s)
        lw == LowerStr(w)
    IN \E i \in 1..Len(ls) :
          /\ OccursAt(ls, lw, i)
          /\ (i = 1 \/ ~IsWordChar(ls[i - 1]))
          /\ (i + Len(lw) - 1 = Len(ls) \/ ~IsWordChar(ls[i + Len(lw)]))

RECURSIVE DigitsValue(_)
DigitsValue(s) == IF s = <<>> THEN 0 ELSE 10 * DigitsValue(SubSeq(s, 1, Len(s) - 1)) + DigitVal(s[Len(s)])

\* pd.to_numeric(cell, errors="coerce") on the text of one cell: the cells of the
\* sources here are unsigned integers, empty, or text that is no number
to_numeric(cell) ==
    IF cell # <<>> /\ \A i \in 1..Len(cell) : IsDigit(cell[i]) THEN Num(DigitsValue(cell)) ELSE NaN

\* re.match(r"^\s*(20\d{2})\s+Number\s*$", str(c)) and int(m.group(1)); NaN when no match
HeaderYear(c) ==
    LET t == LStrip(c)
        rest == SubSeq(t, 5, Len(t))
    IN IF /\ Len(t) >= 4
          /\ t[1] = "2" /\ t[2] = "0" /\ IsDigit(t[3]) /\ IsDigit(t[4])
          /\ rest # <<>> /\ IsSpace(rest[1])
          /\ Strip(rest) = <<"N","u","m","b","e","r">>
       THEN Num(DigitsValue(SubSeq(t, 1, 4)))
       ELSE NaN

----------------------------------------------------------------------------
(* Results of a call: a value, or the exception raised *)

Ok(rows) == [ok |-> TRUE, err |-> "", msg |-> <<>>, rows |-> rows]
Raise(e, m) == [ok |-> FALSE, err |-> e, msg |-> m, rows |-> <<>>]
\* no exception
NoError == [err |-> "", msg |-> <<>>]
NoResult == [ok |-> FALSE, err |-> "", msg |-> <<>>, rows |-> <<>>]

----------------------------------------------------------------------------
(* groupby("year").sum() *)

RECURSIVE SortedSeq(_)
\* the keys of a groupby, ascending
SortedSeq(S) ==
    IF S = {} THEN <<>>
    ELSE LET m == CHOOSE x \in S : \A y \in S : x <= y
         IN <<m>> \o SortedSeq(S \ {m})

RECURSIVE SumSkipNa(_)
\* Series.sum(): NaN are skipped, and the sum of nothing is 0
SumSkipNa(vals) ==
    IF vals = <<>> THEN 0
    ELSE (IF IsNull(Head(vals)) THEN 0 ELSE Val(Head(vals))) + SumSkipNa(Tail(vals))

\* rows: records with year and val (nullable numbers); rows with a NaN year form no group
GroupSum(rows) ==
    LET keys == SortedSeq({Val(rows[i].year) : i \in {j \in 1..Len(rows) : NotNull(rows[j].year)}})
        grp(y) == SelectSeq(rows, LAMBDA r : r.year = Num(y))
    IN [k \in 1..Len(keys) |->
          [year |-> keys[k],
           val |-> Num(SumSkipNa([i \in 1..Len(grp(keys[k])) |-> grp(keys[k])[i].val]))]]

\* out[out["year"].isin(YEARS)]
InYears(rows) == SelectSeq(rows, LAMBDA r : r.year \in YEARS)

----------------------------------------------------------------------------
(* The source files.  A file is: whether it exists, its header row as      *)
(* written in the file, and its data rows (the text of each cell).         *)

MissingFile == [exists |-> FALSE, columns |-> <<>>, rows |-> <<>>]

\* the year cells of the emissions and electricity files
YearCells == {<<"2","0","0","0">>, <<"2","0","0","1">>, <<"2","0","2","4">>, <<"2","0","2","5">>, <<".",".">>}
\* the value cells of the emissions and electricity files
ValCells == {<<"1">>, <<"2">>, <<".",".">>}

EmissionsHeaderOk == <<<<"Y","e","a","r">>, <<"E","m","i","s","s","i","o","n"," "," ","c","a","t","e","g","o","r","y">>, <<"G","r","e","e","n","h","o","u","s","e"," ","g","a","s">>, <<"E","m","i","s","s","i","o","n",","," ","k","t"," ","C","O","2"," ","e","q",".">>>>
EmissionsHeaderNoCategory == <<<<"Y","e","a","r">>, <<"C","a","t","e","g","o","r","y">>, <<"G","r","e","e","n","h","o","u","s","e"," ","g","a","s">>, <<"E","m","i","s","s","i","o","n",","," ","k","t"," ","C","O","2"," ","e","q",".">>>>
EmissionsHeaderNoValue == <<<<"Y","e","a","r">>, <<"E","m","i","s","s","i","o","n"," ","c","a","t","e","g","o","r","y">>, <<"G","r","e","e","n","h","o","u","s","e"," ","g","a","s">>, <<"V","a","l","u","e">>>>
EmissionsCategories == {<<"R","o","a","d"," ","t","r","a","n","s","p","o","r","t">>, <<"R","a","i","l","r","o","a","d">>}
EmissionsRowKinds == [year : YearCells, cat : EmissionsCategories, val : ValCells]

EmissionsSources ==
    {MissingFile}
    \cup {[exists |-> TRUE, columns |-> EmissionsHeaderOk, rows |-> r] :
             r \in SeqsUpTo(EmissionsRowKinds, MaxSrcRows)}
    \cup {[exists |-> TRUE, columns |-> c, rows |-> r] :
             c \in {EmissionsHeaderNoCategory, EmissionsHeaderNoValue},
             r \in SeqsUpTo(EmissionsRowKinds, 1)}

ElectricityHeaderOk == <<<<"Y","e","a","r">>, <<"E","l","e","c","t","r","i","c","i","t","y"," ","c","o","n","s","u","m","p","t","i","o","n"," "," ","s","e","c","t","o","r">>, <<"Q","u","a","n","t","i","t","y"," ","(","G","W","h",")">>>>
ElectricityHeaderNoSector == <<<<"Y","e","a","r">>, <<"S","e","c","t","o","r">>, <<"Q","u","a","n","t","i","t","y"," ","(","G","W","h",")">>>>
ElectricityHeaderNoQuantity == <<<<"Y","e","a","r">>, <<"E","l","e","c","t","r","i","c","i","t","y"," ","c","o","n","s","u","m","p","t","i","o","n"," ","s","e","c","t","o","r">>, <<"G","W","h">>>>
ElectricitySectors == {<<"T","O","T","A","L">>, <<"S","u","b","t","o","t","a","l">>}
ElectricityRowKinds == [year : YearCells, sector : ElectricitySectors, qty : ValCells]

ElectricitySources ==
    {MissingFile}
    \cup {[exists |-> TRUE, columns |-> ElectricityHeaderOk, rows |-> r] :
             r \in SeqsUpTo(ElectricityRowKinds, MaxSrcRows)}
    \cup {[exists |-> TRUE, columns |-> c, rows |-> r] :
             c \in {ElectricityHeaderNoSector, ElectricityHeaderNoQuantity},
             r \in SeqsUpTo(ElectricityRowKinds, 1)}

VehicleClassCol == <<"V","e","h","i","c","l","e"," ","c","l","a","s","s">>
RegionCol == <<"R","e","g","i","o","n">>
VehiclesIdOk == <<VehicleClassCol, RegionCol>>
VehiclesIdBad == <<VehicleClassCol, <<"r","e","g","i","o","n">>>>
\* the other columns a vehicles file may have; the last one names 2001 a second time
VehiclesYearHeaders == {<<"2","0","0","0"," ","N","u","m","b","e","r">>, <<"2","0","0","1"," ","N","u","m","b","e","r">>, <<"2","0","2","4"," ","N","u","m","b","e","r">>, <<"2","0","2","5"," ","N","u","m","b","e","r">>, <<" ","2","0","0","1"," ","N","u","m","b","e","r">>}
\* read_csv renames a repeated header, so the names of one file are distinct
DistinctSeqs(S, n) == {s \in SeqsUpTo(S, n) : \A i, j \in 1..Len(s) : i # j => s[i] # s[j]}
\* the cell of year column k: its number (k as text), or text that is no number
VehiclesCell(k, numeric) == IF numeric THEN <<Digits[k + 1]>> ELSE <<".",".">>
\* a data row is the text of its cells, in the order of the columns
VehiclesRowKinds(n) ==
    {<<<<"A","l","l"," ","a","u","t","o","m","o","b","i","l","e","s">>, <<"M","a","i","n","l","a","n","d"," ","F","i","n","l","a","n","d">>>> \o [k \in 1..n |-> VehiclesCell(k, b[k])] :
        b \in [1..n -> BOOLEAN]}
    \cup {<<<<"V","a","n","s">>, <<"M","A","I","N","L","A","N","D"," ","F","I","N","L","A","N","D">>>> \o [k \in 1..n |-> VehiclesCell(k, TRUE)],
          <<<<"A","l","l"," ","a","u","t","o","m","o","b","i","l","e","s">>, <<"U","u","s","i","m","a","a">>>> \o [k \in 1..n |-> VehiclesCell(k, TRUE)]}

VehiclesSources ==
    {MissingFile}
    \cup UNION {{[exists |-> TRUE, columns |-> VehiclesIdOk \o h, rows |-> r] :
                    r \in SeqsUpTo(VehiclesRowKinds(Len(h)), MaxVehRows)} :
                 h \in DistinctSeqs(VehiclesYearHeaders, MaxVehCols)}
    \cup UNION {{[exists |-> TRUE, columns |-> VehiclesIdBad \o h, rows |-> r] :
                    r \in SeqsUpTo(VehiclesRowKinds(Len(h)), 1)} :
                 h \in DistinctSeqs(VehiclesYearHeaders, 1)}

----------------------------------------------------------------------------
(* preprocess.py: the extractors *)

\* df[df["emission category"].astype(str).str.contains(r"\broad\b", case=False, na=False)]
RoadRows(rows) == SelectSeq(rows, LAMBDA r : ContainsWord(r.cat, <<"r","o","a","d">>))

load_emissions(src) ==
    IF ~src.exists THEN Raise("FileNotFoundError", <<"M","i","s","s","i","n","g"," ","f","i","l","e",":"," ","G","r","e","e","n","h","o","u","s","e","_","g","a","s","_","e","m","i","s","s","i","o","n","s",".","c","s","v">>)
    ELSE LET cols == NormalizeColumns(src.columns)
         IN IF ~InSeq(<<"e","m","i","s","s","i","o","n"," ","c","a","t","e","g","o","r","y">>, cols)
            THEN Raise("ValueError", <<"U","n","e","x","p","e","c","t","e","d"," ","s","c","h","e","m","a"," ","f","o","r"," ","e","m","i","s","s","i","o","n","s"," ","f","i","l","e",":"," ","n","o"," ","'","e","m","i","s","s","i","o","n"," ","c","a","t","e","g","o","r","y","'"," ","c","o","l","u","m","n",".">>)
            ELSE LET road == RoadRows(src.rows)
                     num == [i \in 1..Len(road) |->
                                [year |-> to_numeric(road[i].year), val |-> to_numeric(road[i].val)]]
                 IN IF ~\E i \in 1..Len(cols) : StartsWith(cols[i], <<"e","m","i","s","s","i","o","n",",">>)
                    THEN Raise("ValueError", <<"C","a","n","n","o","t"," ","f","i","n","d"," ","e","m","i","s","s","i","o","n","s"," ","n","u","m","e","r","i","c"," ","c","o","l","u","m","n"," ","(","s","t","a","r","t","s"," ","w","i","t","h"," ","'","e","m","i","s","s","i","o","n",",","'",")",".">>)
                    ELSE Ok(InYears(GroupSum(num)))

IsTotal(r) == ContainsWord(r.sector, <<"t","o","t","a","l">>)

\* the filter without its guard: the "total" rows, even when there are none
TotalRows_unguarded(rows) == SelectSeq(rows, IsTotal)

\* if ....any(): df = df[...]
TotalRows(rows) ==
    IF \E i \in 1..Len(rows) : IsTotal(rows[i]) THEN SelectSeq(rows, IsTotal) ELSE rows

load_electricity(src) ==
    IF ~src.exists THEN Raise("FileNotFoundError", <<"M","i","s","s","i","n","g"," ","f","i","l","e",":"," ","E","l","e","c","t","r","i","c","i","t","y","_","c","o","n","s","u","m","p","t","i","o","n",".","c","s","v">>)
    ELSE LET cols == NormalizeColumns(src.columns)
         IN IF ~InSeq(<<"e","l","e","c","t","r","i","c","i","t","y"," ","c","o","n","s","u","m","p","t","i","o","n"," ","s","e","c","t","o","r">>, cols)
            THEN Raise("ValueError", <<"U","n","e","x","p","e","c","t","e","d"," ","s","c","h","e","m","a"," ","f","o","r"," ","e","l","e","c","t","r","i","c","i","t","y"," ","f","i","l","e",":"," ","n","o"," ","'","e","l","e","c","t","r","i","c","i","t","y"," ","c","o","n","s","u","m","p","t","i","o","n"," ","s","e","c","t","o","r","'"," ","c","o","l","u","m","n",".">>)
            ELSE LET kept == TotalRows(src.rows)
                     num == [i \in 1..Len(kept) |->
                                [year |-> to_numeric(kept[i].year), val |-> to_numeric(kept[i].qty)]]
                 IN IF ~\E i \in 1..Len(cols) : Contains(cols[i], <<"q","u","a","n","t","i","t","y">>)
                    THEN Raise("ValueError", <<"C","a","n","n","o","t"," ","f","i","n","d"," ","e","l","e","c","t","r","i","c","i","t","y"," ","q","u","a","n","t","i","t","y"," ","c","o","l","u","m","n"," ","(","c","o","n","t","a","i","n","s"," ","'","q","u","a","n","t","i","t","y","'",")",".">>)
                    ELSE Ok(InYears(GroupSum(num)))

ColumnIndex(cols, name) == CHOOSE i \in 1..Len(cols) : cols[i] = name

RECURSIVE InsertByYear(_, _)
InsertByYear(sorted, r) ==
    IF sorted = <<>> THEN <<r>>
    ELSE IF sorted[Len(sorted)].year <= r.year THEN Append(sorted, r)
    ELSE Append(InsertByYear(SubSeq(sorted, 1, Len(sorted) - 1), r), sorted[Len(sorted)])

RECURSIVE SortByYear(_)
\* sort_values("year"); rows of one year keep their order
SortByYear(rows) ==
    IF rows = <<>> THEN <<>>
    ELSE InsertByYear(SortByYear(SubSeq(rows, 1, Len(rows) - 1)), rows[Len(rows)])

\* the rows selected: "All automobiles" and "MAINLAND FINLAND", case-insensitive
PickRows(src) ==
    SelectSeq(src.rows, LAMBDA r :
        /\ ContainsNoCase(r[ColumnIndex(src.columns, VehicleClassCol)], <<"A","l","l"," ","a","u","t","o","m","o","b","i","l","e","s">>)
        /\ ContainsNoCase(r[ColumnIndex(src.columns, RegionCol)], <<"M","A","I","N","L","A","N","D"," ","F","I","N","L","A","N","D">>))

\* year_map: the columns whose name matches, in column order
YearColumns(cols) == SelectSeq([i \in 1..Len(cols) |-> i], LAMBDA i : NotNull(HeaderYear(cols[i])))

load_vehicles(src) ==
    IF ~src.exists THEN Raise("FileNotFoundError", <<"M","i","s","s","i","n","g"," ","f","i","l","e",":"," ","R","e","g","_","v","e","h","i","c","l","e","s",".","c","s","v">>)
    ELSE IF ~InSeq(VehicleClassCol, src.columns) \/ ~InSeq(RegionCol, src.columns)
    THEN Raise("ValueError", <<"U","n","e","x","p","e","c","t","e","d"," ","s","c","h","e","m","a"," ","f","o","r"," ","v","e","h","i","c","l","e","s"," ","f","i","l","e",":"," ","n","o"," ","'","V","e","h","i","c","l","e"," ","c","l","a","s","s","'"," ","a","n","d","/","o","r"," ","'","R","e","g","i","o","n","'",".">>)
    ELSE LET pick == PickRows(src)
             ycols == YearColumns(src.columns)
             incols == SelectSeq(ycols, LAMBDA i : Val(HeaderYear(src.columns[i])) \in YEARS)
             rows == [k \in 1..Len(incols) |->
                         [year |-> Val(HeaderYear(src.columns[incols[k]])),
                          val |-> to_numeric(pick[1][incols[k]])]]
         IN IF pick = <<>> THEN Raise("ValueError", <<"C","o","u","l","d"," ","n","o","t"," ","f","i","n","d"," ","'","A","l","l"," ","a","u","t","o","m","o","b","i","l","e","s","'"," ","&"," ","'","M","A","I","N","L","A","N","D"," ","F","I","N","L","A","N","D","'"," ","i","n"," ","v","e","h","i","c","l","e","s"," ","f","i","l","e",".">>)
            ELSE IF ycols = <<>> THEN Raise("ValueError", <<"N","o"," ","'","Y","Y","Y","Y"," ","N","u","m","b","e","r","'"," ","c","o","l","u","m","n","s"," ","d","e","t","e","c","t","e","d"," ","i","n"," ","v","e","h","i","c","l","e","s"," ","f","i","l","e","."," ","C","o","n","f","i","r","m"," ","c","o","l","u","m","n"," ","h","e","a","d","e","r","s"," ","f","o","l","l","o","w"," ","t","h","e"," ","'","2","0","0","1"," ","N","u","m","b","e","r","'"," ","p","a","t","t","e","r","n",".">>)
            \* pd.DataFrame([]) has no column "year" to sort by
            ELSE IF rows = <<>> THEN Raise("KeyError", <<"y","e","a","r">>)
            ELSE Ok(SortByYear(rows))

----------------------------------------------------------------------------
(* preprocess.py: the merge *)

RowsOfYear(S, y) == SelectSeq(S, LAMBDA r : r.year = y)
SeqYears(S) == {S[i].year : i \in 1..Len(S)}

RECURSIVE Concat(_)
Concat(ss) == IF ss = <<>> THEN <<>> ELSE Head(ss) \o Concat(Tail(ss))

JoinElectricity(y, l, r) ==
    [year |-> y,
     emissions_ktco2e |-> IF l = <<>> THEN NaN ELSE l[1].val,
     electricity_gwh |-> IF r = <<>> THEN NaN ELSE r[1].val]

JoinVehicles(y, l, r) ==
    [year |-> y,
     emissions_ktco2e |-> IF l = <<>> THEN NaN ELSE l[1].emissions_ktco2e,
     electricity_gwh |-> IF l = <<>> THEN NaN ELSE l[1].electricity_gwh,
     vehicles_first_reg |-> IF r = <<>> THEN NaN ELSE r[1].val]

\* the columns of a merged row: those of the left row, then those of the right series
JoinRow(right, y, l, r) ==
    IF right = "electricity" THEN JoinElectricity(y, l, r) ELSE JoinVehicles(y, l, r)

\* L.merge(R, on="year"): for each key, ascending, the rows of L with it joined to
\* the rows of R with it; a key one side lacks is joined with no row of that side
\* (<<>> in place of <<row>>).  right names the series R.
MergeOn(keys, L, R, right) ==
    LET opt(S, y) == IF RowsOfYear(S, y) = <<>> THEN <<(<<>>)>>
                     ELSE [i \in 1..Len(RowsOfYear(S, y)) |-> <<RowsOfYear(S, y)[i]>>]
        block(y) == LET l == opt(L, y)
                        r == opt(R, y)
                    IN [k \in 1..(Len(l) * Len(r)) |->
                           JoinRow(right, y, l[((k - 1) \div Len(r)) + 1], r[((k - 1) % Len(r)) + 1])]
        ks == SortedSeq(keys)
    IN Concat([k \in 1..Len(ks) |-> block(ks[k])])

\* merged[(merged["year"] >= YEARS[0]) & (merged["year"] <= YEARS[-1])].sort_values("year")
RangeAndSort(m) == SortByYear(SelectSeq(m, LAMBDA r : r.year >= YearFirst /\ r.year <= YearLast))

\* how="inner" in place of how="outer": only the keys both sides have
MergeAll_inner(e, l, v) ==
    LET el == MergeOn(SeqYears(e) \cap SeqYears(l), e, l, "electricity")
    IN RangeAndSort(MergeOn(SeqYears(el) \cap SeqYears(v), el, v, "vehicles"))

\* emissions.merge(electricity, on="year", how="outer").merge(vehicles, on="year", how="outer"),
\* then the range filter and the sort
MergeAll(e, l, v) ==
    LET el == MergeOn(SeqYears(e) \cup SeqYears(l), e, l, "electricity")
    IN RangeAndSort(MergeOn(SeqYears(el) \cup SeqYears(v), el, v, "vehicles"))

----------------------------------------------------------------------------
(* One extractor call on one source file *)

UIdle == u_pc = "idle" /\ u_which = "" /\ u_src = MissingFile /\ u_out = NoResult

UInit == u_pc = "start" /\ u_which = "" /\ u_src = MissingFile /\ u_out = NoResult

CallLoadEmissions ==
    /\ u_pc = "start"
    /\ \E s \in EmissionsSources :
          u_src' = s /\ u_out' = load_emissions(s)
    /\ u_which' = "emissions"
    /\ u_pc' = "returned"
    /\ UNCHANGED <<p_vars, a_vars>>

CallLoadElectricity ==
    /\ u_pc = "start"
    /\ \E s \in ElectricitySources :
          u_src' = s /\ u_out' = load_electricity(s)
    /\ u_which' = "electricity"
    /\ u_pc' = "returned"
    /\ UNCHANGED <<p_vars, a_vars>>

CallLoadVehicles ==
    /\ u_pc = "start"
    /\ \E s \in VehiclesSources :
          u_src' = s /\ u_out' = load_vehicles(s)
    /\ u_which' = "vehicles"
    /\ u_pc' = "returned"
    /\ UNCHANGED <<p_vars, a_vars>>

UNext == CallLoadEmissions \/ CallLoadElectricity \/ CallLoadVehicles

----------------------------------------------------------------------------
(* preprocess.py: main *)

IntermediateFiles == {"emissions_ktco2e.csv", "electricity_gwh.csv", "vehicles_first_reg.csv"}
MergedFile == "merged_finland_2001_2024.csv"
Extractors == {"emissions", "electricity", "vehicles"}

\* what each extractor can return or raise, over the source files
EmissionsResults == {load_emissions(s) : s \in EmissionsSources}
ElectricityResults == {load_electricity(s) : s \in ElectricitySources}
VehiclesResults == {load_vehicles(s) : s \in VehiclesSources}

PIdle ==
    /\ p_pc = "idle" /\ p_outdir = FALSE
    /\ emissions = <<>> /\ electricity = <<>> /\ vehicles = <<>>
    /\ p_done = {} /\ merged = <<>> /\ p_files = {} /\ p_err = NoError

PInit ==
    /\ p_pc = "start" /\ p_outdir = FALSE
    /\ emissions = <<>> /\ electricity = <<>> /\ vehicles = <<>>
    /\ p_done = {} /\ merged = <<>> /\ p_files = {} /\ p_err = NoError

\* os.makedirs(args.out_dir, exist_ok=True)
MakeOutDir ==
    /\ p_pc = "start"
    /\ p_outdir' = TRUE
    /\ p_pc' = "load_emissions"
    /\ UNCHANGED <<emissions, electricity, vehicles, p_done, merged, p_files, p_err>>
    /\ UNCHANGED <<u_vars, a_vars>>

\* the emissions series written as soon as it is loaded
LoadEmissions_then_write ==
    /\ p_pc = "load_emissions"
    /\ \E r \in EmissionsResults :
          IF r.ok
          THEN /\ emissions' = r.rows
               /\ p_done' = p_done \cup {"emissions"}
               /\ p_files' = p_files \cup {"emissions_ktco2e.csv"}
               /\ p_pc' = "load_electricity"
               /\ p_err' = p_err
          ELSE /\ p_err' = [err |-> r.err, msg |-> r.msg]
               /\ p_pc' = "failed"
               /\ UNCHANGED <<emissions, p_done, p_files>>
    /\ UNCHANGED <<p_outdir, electricity, vehicles, merged>>
    /\ UNCHANGED <<u_vars, a_vars>>

\* emissions = load_emissions(args.data_dir)
LoadEmissions ==
    /\ p_pc = "load_emissions"
    /\ \E r \in EmissionsResults :
          IF r.ok
          THEN /\ emissions' = r.rows
               /\ p_done' = p_done \cup {"emissions"}
               /\ p_pc' = "load_electricity"
               /\ p_err' = p_err
          ELSE /\ p_err' = [err |-> r.err, msg |-> r.msg]
               /\ p_pc' = "failed"
               /\ UNCHANGED <<emissions, p_done>>
    /\ UNCHANGED <<p_outdir, electricity, vehicles, merged, p_files>>
    /\ UNCHANGED <<u_vars, a_vars>>

\* electricity = load_electricity(args.data_dir)
LoadElectricity ==
    /\ p_pc = "load_electricity"
    /\ \E r \in ElectricityResults :
          IF r.ok
          THEN /\ electricity' = r.rows
               /\ p_done' = p_done \cup {"electricity"}
               /\ p_pc' = "load_vehicles"
               /\ p_err' = p_err
          ELSE /\ p_err' = [err |-> r.err, msg |-> r.msg]
               /\ p_pc' = "failed"
               /\ UNCHANGED <<electricity, p_done>>
    /\ UNCHANGED <<p_outdir, emissions, vehicles, merged, p_files>>
    /\ UNCHANGED <<u_vars, a_vars>>

\* vehicles = load_vehicles(args.data_dir)
LoadVehicles ==
    /\ p_pc = "load_vehicles"
    /\ \E r \in VehiclesResults :
          IF r.ok
          THEN /\ vehicles' = r.rows
               /\ p_done' = p_done \cup {"vehicles"}
               /\ p_pc' = "write_intermediates"
               /\ p_err' = p_err
          ELSE /\ p_err' = [err |-> r.err, msg |-> r.msg]
               /\ p_pc' = "failed"
               /\ UNCHANGED <<vehicles, p_done>>
    /\ UNCHANGED <<p_outdir, emissions, electricity, merged, p_files>>
    /\ UNCHANGED <<u_vars, a_vars>>

\* the three to_csv of the intermediate series
WriteIntermediates ==
    /\ p_pc = "write_intermediates"
    /\ p_files' = p_files \cup IntermediateFiles
    /\ p_pc' = "merge"
    /\ UNCHANGED <<p_outdir, emissions, electricity, vehicles, p_done, merged, p_err>>
    /\ UNCHANGED <<u_vars, a_vars>>

\* merged = ...; merged.to_csv(...)
MergeAndWrite ==
    /\ p_pc = "merge"
    /\ merged' = MergeAll(emissions, electricity, vehicles)
    /\ p_files' = p_files \cup {MergedFile}
    /\ p_pc' = "done"
    /\ UNCHANGED <<p_outdir, emissions, electricity, vehicles, p_done, p_err>>
    /\ UNCHANGED <<u_vars, a_vars>>

PNext == MakeOutDir \/ LoadEmissions \/ LoadElectricity \/ LoadVehicles \/ WriteIntermediates \/ MergeAndWrite

----------------------------------------------------------------------------
(* analysis.py: the derivations *)

Idx(s) == 1..Len(s)
NotNullIdx(s) == {i \in Idx(s) : NotNull(s[i])}

\* zscore: (s - s.mean()) / s.std(ddof=0) over the n non-null values, as the exact
\* quotient num / sqrt(rad) with num = n*x - sum and rad = n*sum(x^2) - sum^2;
\* 0/0 (a constant column) and a null x are NaN
zscore(s) ==
    LET nn == NotNullIdx(s)
        n == Cardinality(nn)
        x == [i \in Idx(s) |-> IF i \in nn THEN Val(s[i]) ELSE 0]
        sum == SumOver(x, nn)
        rad == n * SumOver([i \in Idx(s) |-> x[i] * x[i]], nn) - sum * sum
    IN [i \in Idx(s) |->
          IF i \notin nn \/ rad = 0 THEN NaN ELSE Num([num |-> n * x[i] - sum, rad |-> rad])]

\* the difference taken the other way round: previous minus current
yoy_reversed(s) ==
    [i \in Idx(s) |->
        IF i = 1 \/ IsNull(s[i]) \/ IsNull(s[i - 1]) THEN NaN ELSE Num(Val(s[i - 1]) - Val(s[i]))]

\* yoy: s.diff()
yoy(s) ==
    [i \in Idx(s) |->
        IF i = 1 \/ IsNull(s[i]) \/ IsNull(s[i - 1]) THEN NaN ELSE Num(Val(s[i]) - Val(s[i - 1]))]

RECURSIVE Gcd(_, _)
Gcd(a, b) == IF b = 0 THEN a ELSE Gcd(b, a % b)

\* Pearson's r of x and y over the index set P, as the exact value
\* sgn * sqrt(p / q) with p / q in lowest terms; NaN when P is empty or a variance is 0
Pearson(x, y, P) ==
    LET n == Cardinality(P)
        sx == SumOver(x, P)
        sy == SumOver(y, P)
        cov == n * SumOver([i \in DOMAIN x |-> x[i] * y[i]], P) - sx * sy
        vx == n * SumOver([i \in DOMAIN x |-> x[i] * x[i]], P) - sx * sx
        vy == n * SumOver([i \in DOMAIN y |-> y[i] * y[i]], P) - sy * sy
        g == Gcd(cov * cov, vx * vy)
    IN IF n = 0 \/ vx = 0 \/ vy = 0 THEN NaN
       ELSE Num([sgn |-> IF cov > 0 THEN 1 ELSE IF cov < 0 THEN -1 ELSE 0,
                 p |-> (cov * cov) \div g,
                 q |-> (vx * vy) \div g])

Values(s) == [i \in Idx(s) |-> IF NotNull(s[i]) THEN Val(s[i]) ELSE 0]

\* a.corr(b), and one entry of DataFrame.corr(): the rows where both are non-null
Corr(a, b) == Pearson(Values(a), Values(b), NotNullIdx(a) \cap NotNullIdx(b))

\* min_periods below the window size: the non-null pairs of a full window are correlated
RollingCorr_min_periods(a, b) ==
    [i \in Idx(a) |->
        LET w == (i - RollWindow + 1)..i
        IN IF i < RollWindow THEN NaN
           ELSE Pearson(Values(a), Values(b), w \cap NotNullIdx(a) \cap NotNullIdx(b))]

\* a.rolling(5).corr(b): NaN until the window is full and whenever the window
\* holds a NaN of a or of b (min_periods is the window size)
RollingCorr(a, b) ==
    [i \in Idx(a) |->
        LET w == (i - RollWindow + 1)..i
        IN IF i < RollWindow \/ \E j \in w : IsNull(a[j]) \/ IsNull(b[j]) THEN NaN
           ELSE Pearson(Values(a), Values(b), w)]

\* s.shift(k), k >= 0
Shift(s, k) == [i \in Idx(s) |-> IF i <= k THEN NaN ELSE s[i - k]]

\* the lags of lagged_corr, in order: range(-max_lag, max_lag + 1)
LagRange(max_lag) == [k \in 1..(2 * max_lag + 1) |-> k - max_lag - 1]

\* the shifts applied to the other series
LagCorrAt_other_series(x, y, lag) == IF lag < 0 THEN Corr(x, Shift(y, -lag)) ELSE Corr(Shift(x, lag), y)

\* one pass of the loop of lagged_corr
LagCorrAt(x, y, lag) == IF lag < 0 THEN Corr(Shift(x, -lag), y) ELSE Corr(x, Shift(y, lag))

lagged_corr(x, y, max_lag) ==
    [k \in 1..(2 * max_lag + 1) |->
        [lag |-> LagRange(max_lag)[k], corr |-> LagCorrAt(x, y, LagRange(max_lag)[k])]]

\* dropna() without subset: a null in any column of the frame drops the row
DropNa_any_column(frame, cols) ==
    SelectSeq([i \in Idx(frame.year) |-> i], LAMBDA i : \A c \in (DOMAIN frame \ {"year"}) : NotNull(frame[c][i]))

\* df.dropna(subset=[y] + xcols): the index of the rows kept
DropNa(frame, cols) ==
    SelectSeq([i \in Idx(frame.year) |-> i], LAMBDA i : \A c \in cols : NotNull(frame[c][i]))

\* fit_ols: the fit is the rows it was made on
fit_ols(frame, y, xcols) ==
    LET kept == DropNa(frame, {y} \cup xcols)
    IN IF kept = <<>> THEN Raise("ValueError", <<"N","o"," ","r","o","w","s"," ","a","v","a","i","l","a","b","l","e"," ","f","o","r"," ","O","L","S"," ","a","f","t","e","r"," ","d","r","o","p","p","i","n","g"," ","N","A",".">>)
       ELSE Ok(kept)

----------------------------------------------------------------------------
(* analysis.py: main *)

RequiredCols == <<"year", "emissions_ktco2e", "electricity_gwh", "vehicles_first_reg">>
MetricCols == <<"emissions_ktco2e", "electricity_gwh", "vehicles_first_reg">>

\* the rows an input table is made of: the year step from the row before, and the
\* text of the three metric cells (a number, empty, or text that is no number)
AnaRowKinds ==
    {[dy |-> 1, e |-> <<"1">>, l |-> <<"1">>, v |-> <<"2">>],
     [dy |-> 1, e |-> <<"2">>, l |-> <<"3">>, v |-> <<"1">>],
     [dy |-> 2, e |-> <<"3">>, l |-> <<"2">>, v |-> <<"2">>],
     [dy |-> 1, e |-> <<>>, l |-> <<"2">>, v |-> <<"x">>],
     [dy |-> 1, e |-> <<"2">>, l |-> <<"x">>, v |-> <<"1">>]}

RECURSIVE YearColumn(_)
YearColumn(rows) ==
    IF rows = <<>> THEN <<>>
    ELSE LET before == YearColumn(SubSeq(rows, 1, Len(rows) - 1))
         IN Append(before,
                   (IF before = <<>> THEN YearFirst - 1 ELSE before[Len(before)]) + rows[Len(rows)].dy)

\* the file at --in-csv as read_csv returns it
Frame(rows) ==
    [year |-> YearColumn(rows),
     emissions_ktco2e |-> [i \in Idx(rows) |-> rows[i].e],
     electricity_gwh |-> [i \in Idx(rows) |-> rows[i].l],
     vehicles_first_reg |-> [i \in Idx(rows) |-> rows[i].v]]

AnaInputs ==
    {MissingFile}
    \cup {[exists |-> TRUE, columns |-> RequiredCols, rows |-> r] : r \in SeqsUpTo(AnaRowKinds, MaxRows)}
    \cup {[exists |-> TRUE, columns |-> SubSeq(RequiredCols, 1, 3), rows |-> r] : r \in SeqsUpTo(AnaRowKinds, 1)}

AInit ==
    /\ a_pc = "start" /\ a_in = MissingFile /\ df = <<>> /\ corr_summary = <<>> /\ a_files = {} /\ a_err = NoError
    /\ lagcorr_elec = <<>> /\ lagcorr_veh = <<>> /\ ols_levels = NoResult /\ ols_deltas = NoResult

AFail(e) == a_err' = [err |-> e.err, msg |-> e.msg] /\ a_pc' = "failed"

\* lines 66-74: the input file, read_csv, the required columns
ReadInput ==
    /\ a_pc = "start"
    /\ \E f \in AnaInputs :
          /\ a_in' = f
          /\ IF ~f.exists
             THEN AFail(Raise("FileNotFoundError", <<"I","n","p","u","t"," ","C","S","V"," ","n","o","t"," ","f","o","u","n","d",":"," ">>)) /\ df' = df
             ELSE IF \E i \in 1..Len(RequiredCols) : ~InSeq(RequiredCols[i], f.columns)
             THEN AFail(Raise("ValueError", <<"M","i","s","s","i","n","g"," ","c","o","l","u","m","n","s"," ","i","n"," ","i","n","p","u","t"," ","C","S","V",":"," ">>)) /\ df' = df
             ELSE df' = Frame(f.rows) /\ a_pc' = "derive" /\ a_err' = a_err
    /\ UNCHANGED <<corr_summary, a_files, lagcorr_elec, lagcorr_veh, ols_levels, ols_deltas>>
    /\ UNCHANGED <<p_vars, u_vars>>

\* lines 76-86: to_numeric of the metric columns, the z-scores, the deltas
Numeric(col) == [i \in Idx(col) |-> to_numeric(col[i])]

Derive ==
    /\ a_pc = "derive"
    /\ LET e == Numeric(df.emissions_ktco2e)
           l == Numeric(df.electricity_gwh)
           v == Numeric(df.vehicles_first_reg)
       IN df' = [year |-> df.year,
                 emissions_ktco2e |-> e, electricity_gwh |-> l, vehicles_first_reg |-> v,
                 emissions_z |-> zscore(e), electricity_z |-> zscore(l), vehicles_z |-> zscore(v),
                 d_emissions |-> yoy(e), d_electricity |-> yoy(l), d_vehicles |-> yoy(v)]
    /\ a_pc' = "correlations"
    /\ UNCHANGED <<a_in, corr_summary, a_files, a_err, lagcorr_elec, lagcorr_veh, ols_levels, ols_deltas>>
    /\ UNCHANGED <<p_vars, u_vars>>

\* lines 89-111: the four correlations and correlations_summary.csv
WriteCorrSummary ==
    /\ a_pc = "correlations"
    /\ corr_summary' =
          <<[metric |-> "levels_electricity", pearson_r |-> Corr(df.emissions_ktco2e, df.electricity_gwh)],
            [metric |-> "levels_vehicles", pearson_r |-> Corr(df.emissions_ktco2e, df.vehicles_first_reg)],
            [metric |-> "deltas_electricity", pearson_r |-> Corr(df.d_emissions, df.d_electricity)],
            [metric |-> "deltas_vehicles", pearson_r |-> Corr(df.d_emissions, df.d_vehicles)]>>
    /\ a_files' = a_files \cup {"correlations_summary.csv"}
    /\ a_pc' = "rolling"
    /\ UNCHANGED <<a_in, df, a_err, lagcorr_elec, lagcorr_veh, ols_levels, ols_deltas>>
    /\ UNCHANGED <<p_vars, u_vars>>

\* lines 114-116: the rolling correlations and merged_with_derivatives.csv
RollingAndWrite ==
    /\ a_pc = "rolling"
    /\ df' = df @@ [roll_corr_elec |-> RollingCorr(df.emissions_ktco2e, df.electricity_gwh),
                    roll_corr_veh |-> RollingCorr(df.emissions_ktco2e, df.vehicles_first_reg)]
    /\ a_files' = a_files \cup {"merged_with_derivatives.csv"}
    /\ a_pc' = "lag"
    /\ UNCHANGED <<a_in, corr_summary, a_err, lagcorr_elec, lagcorr_veh, ols_levels, ols_deltas>>
    /\ UNCHANGED <<p_vars, u_vars>>

\* lines 118-121: the lag correlations and their two files
LagAndWrite ==
    /\ a_pc = "lag"
    /\ lagcorr_elec' = lagged_corr(df.electricity_gwh, df.emissions_ktco2e, MaxLag)
    /\ lagcorr_veh' = lagged_corr(df.vehicles_first_reg, df.emissions_ktco2e, MaxLag)
    /\ a_files' = a_files \cup {"lagcorr_electricity.csv", "lagcorr_vehicles.csv"}
    /\ a_pc' = "ols_levels"
    /\ UNCHANGED <<a_in, df, corr_summary, a_err, ols_levels, ols_deltas>>
    /\ UNCHANGED <<p_vars, u_vars>>

LevelsY == "emissions_ktco2e"
LevelsX == {"electricity_gwh", "vehicles_first_reg"}
DeltasY == "d_emissions"
DeltasX == {"d_electricity", "d_vehicles"}

\* line 124
FitLevels ==
    /\ a_pc = "ols_levels"
    /\ LET r == fit_ols(df, LevelsY, LevelsX)
       IN IF r.ok
          THEN ols_levels' = r /\ a_pc' = "ols_deltas" /\ a_err' = a_err
          ELSE AFail(r) /\ ols_levels' = ols_levels
    /\ UNCHANGED <<a_in, df, corr_summary, a_files, lagcorr_elec, lagcorr_veh, ols_deltas>>
    /\ UNCHANGED <<p_vars, u_vars>>

\* line 125
FitDeltas ==
    /\ a_pc = "ols_deltas"
    /\ LET r == fit_ols(df, DeltasY, DeltasX)
       IN IF r.ok
          THEN ols_deltas' = r /\ a_pc' = "write_ols" /\ a_err' = a_err
          ELSE AFail(r) /\ ols_deltas' = ols_deltas
    /\ UNCHANGED <<a_in, df, corr_summary, a_files, lagcorr_elec, lagcorr_veh, ols_levels>>
    /\ UNCHANGED <<p_vars, u_vars>>

\* lines 127-131
WriteOls ==
    /\ a_pc = "write_ols"
    /\ a_files' = a_files \cup {"ols_summary.txt"}
    /\ a_pc' = "done"
    /\ UNCHANGED <<a_in, df, corr_summary, a_err, lagcorr_elec, lagcorr_veh, ols_levels, ols_deltas>>
    /\ UNCHANGED <<p_vars, u_vars>>

ANext ==
    \/ ReadInput \/ Derive \/ WriteCorrSummary \/ RollingAndWrite
    \/ LagAndWrite \/ FitLevels \/ FitDeltas \/ WriteOls

----------------------------------------------------------------------------
(* Properties of preprocess main (Spec) *)

MergedYears == [i \in 1..Len(merged) |-> merged[i].year]
CoveredYears == SeqYears(emissions) \cup SeqYears(electricity) \cup SeqYears(vehicles)
OneRowPerYear(S) == \A i, j \in 1..Len(S) : i # j => S[i].year # S[j].year

\* C1 as stated: whatever years the three series cover, the merged table has
\* exactly one row for each year of 2001..2024, in strictly ascending order.
C1_RowForEveryYearOfRange ==
    p_pc = "done" => MergedYears = [i \in 1..(YearLast - YearFirst + 1) |-> YearFirst + i - 1]

\* C1 amended: the merged table has rows for exactly the years of 2001..2024 that
\* at least one series covers, in ascending order, and exactly one row per such
\* year (strictly ascending, no duplicate) when each series has one row per year.
C1_RowForEveryCoveredYear ==
    p_pc = "done" =>
        /\ {MergedYears[i] : i \in 1..Len(merged)} = CoveredYears
        /\ CoveredYears \subseteq YEARS
        /\ \A i \in 1..(Len(merged) - 1) : MergedYears[i] <= MergedYears[i + 1]
        /\ OneRowPerYear(vehicles) =>
              \A i \in 1..(Len(merged) - 1) : MergedYears[i] < MergedYears[i + 1]
        /\ OneRowPerYear(emissions) /\ OneRowPerYear(electricity)

\* two years covered by different series, and every other year of the range by none
C1_Witness ==
    /\ p_pc = "done"
    /\ SeqYears(emissions) = {YearLast}
    /\ SeqYears(electricity) = {}
    /\ SeqYears(vehicles) = {YearFirst}
    /\ MergedYears = <<YearFirst, YearLast>>
    /\ IsNull(merged[1].emissions_ktco2e) /\ NotNull(merged[2].emissions_ktco2e)

\* C10: a file is written only after all three extractors have returned, so a run
\* an extractor ends has written no file.
C10_ExtractorsBeforeFiles ==
    /\ p_files # {} => p_done = Extractors /\ p_err = NoError
    /\ p_pc = "failed" => p_files = {}
    /\ p_pc = "failed" => p_err # NoError /\ p_done # Extractors

\* load_vehicles finds no 'All automobiles' / 'MAINLAND FINLAND' row after the other two returned
C10_Witness ==
    /\ p_pc = "failed"
    /\ p_done = {"emissions", "electricity"}
    /\ emissions # <<>> /\ electricity # <<>>
    /\ p_err = [err |-> "ValueError", msg |-> <<"C","o","u","l","d"," ","n","o","t"," ","f","i","n","d"," ","'","A","l","l"," ","a","u","t","o","m","o","b","i","l","e","s","'"," ","&"," ","'","M","A","I","N","L","A","N","D"," ","F","I","N","L","A","N","D","'"," ","i","n"," ","v","e","h","i","c","l","e","s"," ","f","i","l","e",".">>]
    /\ p_files = {}

----------------------------------------------------------------------------
(* Properties of the extractors (SpecLoad) *)

Returned(which) == u_pc = "returned" /\ u_which = which
OutYears == {u_out.rows[i].year : i \in 1..Len(u_out.rows)}
RowIdx == 1..Len(u_src.rows)

\* the rows of the emissions file that load_emissions selects, for a year
RoadRowsOfYear(y) ==
    {i \in RowIdx : u_src.rows[i].cat = <<"R","o","a","d"," ","t","r","a","n","s","p","o","r","t">> /\ u_src.rows[i].year = y}

\* the text of a year of the range
YearText == {<<"2","0","0","1">>, <<"2","0","2","4">>}
YearOfText(t) == IF t = <<"2","0","0","1">> THEN 2001 ELSE 2024

\* C4 as stated, for load_emissions: a year all of whose selected value cells
\* are non-numeric has a null metric in the series, not 0.
C4_NonNumericYearIsNull ==
    (Returned("emissions") /\ u_src.exists /\ u_src.columns = EmissionsHeaderOk) =>
        /\ u_out.ok
        /\ \A t \in YearText :
              (RoadRowsOfYear(t) # {} /\ \A i \in RoadRowsOfYear(t) : u_src.rows[i].val = <<".",".">>) =>
                  \E k \in 1..Len(u_out.rows) :
                      u_out.rows[k].year = YearOfText(t) /\ IsNull(u_out.rows[k].val)

VehiclesStructurallyValid ==
    /\ u_src.exists
    /\ SubSeq(u_src.columns, 1, 2) = VehiclesIdOk
    /\ \E i \in RowIdx : u_src.rows[i][1] = <<"A","l","l"," ","a","u","t","o","m","o","b","i","l","e","s">> /\ u_src.rows[i][2] = <<"M","a","i","n","l","a","n","d"," ","F","i","n","l","a","n","d">>
    /\ \E i \in 3..Len(u_src.columns) : u_src.columns[i] \in VehiclesYearHeaders

\* C7 as stated: on a structurally valid source every extractor returns a series
\* with years of 2001..2024 only, and the years outside are dropped without an
\* error, also when they are all outside.
C7_OutsideYearsDropped ==
    /\ (Returned("emissions") /\ u_src.exists /\ u_src.columns = EmissionsHeaderOk) =>
          u_out.ok /\ OutYears \subseteq YEARS
    /\ (Returned("electricity") /\ u_src.exists /\ u_src.columns = ElectricityHeaderOk) =>
          u_out.ok /\ OutYears \subseteq YEARS
    /\ (Returned("vehicles") /\ VehiclesStructurallyValid) =>
          u_out.ok /\ OutYears \subseteq YEARS

TotalIdx == {i \in RowIdx : u_src.rows[i].sector = <<"T","O","T","A","L">>}
KeptIdx == IF TotalIdx # {} THEN TotalIdx ELSE RowIdx
KeptOfYear(t) == {i \in KeptIdx : u_src.rows[i].year = t}
QtyOf(i) == IF u_src.rows[i].qty = <<"1">> THEN 1 ELSE IF u_src.rows[i].qty = <<"2">> THEN 2 ELSE 0

\* C8: with a "total" row the value of a year is the sum of the quantity over the
\* "total" rows of that year, without one it is the sum over all rows of that
\* year; one value per year of 2001..2024 in the kept rows, and no error.
C8_TotalRowsOrAllRows ==
    (Returned("electricity") /\ u_src.exists /\ u_src.columns = ElectricityHeaderOk) =>
        /\ u_out.ok
        /\ OutYears = {YearOfText(t) : t \in {s \in YearText : KeptOfYear(s) # {}}}
        /\ Len(u_out.rows) = Cardinality(OutYears)
        /\ \A t \in YearText : \A k \in 1..Len(u_out.rows) :
              u_out.rows[k].year = YearOfText(t) =>
                  u_out.rows[k].val = Num(SumOver([i \in RowIdx |-> QtyOf(i)], KeptOfYear(t)))

\* no "total" row: both rows of 2001 are summed
C8_Witness ==
    /\ Returned("electricity") /\ u_out.ok
    /\ Len(u_src.rows) = 2 /\ TotalIdx = {}
    /\ u_src.rows[1].qty = <<"1">> /\ u_src.rows[2].qty = <<"2">>
    /\ u_out.rows = <<[year |-> 2001, val |-> Num(3)]>>

----------------------------------------------------------------------------
(* Properties of analysis main (SpecAnalysis) *)

\* a run that fit_ols ended: the only exception after the first file is written
FitFailed == a_pc = "failed" /\ a_files # {}
Derived == a_pc \in {"correlations", "rolling", "lag", "ols_levels", "ols_deltas", "write_ols", "done"} \/ FitFailed
Rolled == a_pc \in {"lag", "ols_levels", "ols_deltas", "write_ols", "done"} \/ FitFailed
Lagged == a_pc \in {"ols_levels", "ols_deltas", "write_ols", "done"} \/ FitFailed
NRows == Len(df.year)

\* C2 as stated: a run that fails has written none of its output files.
C2_FailedRunWroteNothing == a_pc = "failed" => a_files = {}

\* Pearson's r of the pairs (x at row i, y at row i + off), both non-null
PairCorr(x, y, off) ==
    LET P == {i \in Idx(x) : i + off \in Idx(y) /\ NotNull(x[i]) /\ NotNull(y[i + off])}
    IN Pearson([i \in P |-> Val(x[i])], [i \in P |-> Val(y[i + off])], P)

SevenLags(t) == Len(t) = 2 * MaxLag + 1 /\ \A k \in 1..Len(t) : t[k].lag = k - MaxLag - 1

\* C3 as stated: 7 rows, lag -3..3, and at lag L the pairs are (x at row i, y at
\* row i + L): X leads Y by L.
C3_PositiveLagXLeads ==
    Lagged =>
        /\ SevenLags(lagcorr_elec) /\ SevenLags(lagcorr_veh)
        /\ \A k \in 1..(2 * MaxLag + 1) :
              /\ lagcorr_elec[k].corr = PairCorr(df.electricity_gwh, df.emissions_ktco2e, k - MaxLag - 1)
              /\ lagcorr_veh[k].corr = PairCorr(df.vehicles_first_reg, df.emissions_ktco2e, k - MaxLag - 1)

\* C3 amended: 7 rows, lag -3..3, and at lag L the pairs are (x at row i + L, y
\* at row i), both non-null: X lags Y by L.
C3_PositiveLagXLags ==
    Lagged =>
        /\ SevenLags(lagcorr_elec) /\ SevenLags(lagcorr_veh)
        /\ \A k \in 1..(2 * MaxLag + 1) :
              /\ lagcorr_elec[k].corr = PairCorr(df.electricity_gwh, df.emissions_ktco2e, MaxLag + 1 - k)
              /\ lagcorr_veh[k].corr = PairCorr(df.vehicles_first_reg, df.emissions_ktco2e, MaxLag + 1 - k)

\* a table whose correlation at lag 3 is +1 and at lag -3 is -1
C3_Witness ==
    /\ Lagged
    /\ lagcorr_elec[2 * MaxLag + 1].corr = Num([sgn |-> 1, p |-> 1, q |-> 1])
    /\ lagcorr_elec[1].corr = Num([sgn |-> -1, p |-> 1, q |-> 1])

WindowOf(i) == (i - RollWindow + 1)..i
NullInWindow(a, b, i) == \E j \in WindowOf(i) : IsNull(a[j]) \/ IsNull(b[j])
ConstantInWindow(a, i) == \A j, k \in WindowOf(i) : a[j] = a[k]

\* C5 as stated, for one rolling column r of a and b
RollNullOrDefined(r, a, b) ==
    \A i \in 1..NRows :
        /\ (i < RollWindow \/ NullInWindow(a, b, i)) => IsNull(r[i])
        /\ (i >= RollWindow /\ ~NullInWindow(a, b, i)) => NotNull(r[i])

\* C5 as stated: null on the first 4 rows and with a null in the window, defined
\* on every later row whose window has no null.
C5_DefinedWithoutNull ==
    Rolled =>
        /\ RollNullOrDefined(df.roll_corr_elec, df.emissions_ktco2e, df.electricity_gwh)
        /\ RollNullOrDefined(df.roll_corr_veh, df.emissions_ktco2e, df.vehicles_first_reg)

RollNullOrDefinedIfVarying(r, a, b) ==
    \A i \in 1..NRows :
        /\ (i < RollWindow \/ NullInWindow(a, b, i)) => IsNull(r[i])
        /\ (i >= RollWindow /\ ~NullInWindow(a, b, i)
              /\ ~ConstantInWindow(a, i) /\ ~ConstantInWindow(b, i)) => NotNull(r[i])

\* C5 amended: null on the first 4 rows and with a null in the window, defined on
\* every later row whose window has no null and in which neither series is constant.
C5_DefinedWithoutNullIfVarying ==
    Rolled =>
        /\ RollNullOrDefinedIfVarying(df.roll_corr_elec, df.emissions_ktco2e, df.electricity_gwh)
        /\ RollNullOrDefinedIfVarying(df.roll_corr_veh, df.emissions_ktco2e, df.vehicles_first_reg)

\* a null of electricity in the window: one rolling column null, the other defined
C5_Witness ==
    /\ Rolled /\ NRows = RollWindow
    /\ IsNull(df.roll_corr_elec[RollWindow])
    /\ NotNull(df.roll_corr_veh[RollWindow])
    /\ \A i \in 1..(RollWindow - 1) : IsNull(df.roll_corr_veh[i])

Complete(cols) == {i \in 1..NRows : \A c \in cols : NotNull(df[c][i])}
LevelsCols == {"emissions_ktco2e", "electricity_gwh", "vehicles_first_reg"}
DeltasCols == {"d_emissions", "d_electricity", "d_vehicles"}
LevelsFitted == a_pc \in {"ols_deltas", "write_ols", "done"} \/ (FitFailed /\ ols_levels.ok)
DeltasFitted == a_pc \in {"write_ols", "done"}
LevelsFailed == FitFailed /\ ~ols_levels.ok
DeltasFailed == FitFailed /\ ols_levels.ok
FittedOn(fit, cols) ==
    /\ fit.ok
    /\ {fit.rows[k] : k \in 1..Len(fit.rows)} = Complete(cols)
    /\ Len(fit.rows) = Cardinality(Complete(cols))

\* each model is fitted on exactly its complete rows, and fails on none of them
RowsOfEachModel ==
    /\ LevelsFitted => FittedOn(ols_levels, LevelsCols)
    /\ DeltasFitted => FittedOn(ols_deltas, DeltasCols)
    /\ LevelsFailed => Complete(LevelsCols) = {} /\ ols_levels = NoResult /\ ols_deltas = NoResult
    /\ DeltasFailed => Complete(DeltasCols) = {} /\ ols_deltas = NoResult
    /\ (Lagged /\ ~FitFailed /\ Complete(LevelsCols) = {}) => a_pc = "ols_levels"
    /\ (Lagged /\ ~FitFailed /\ Complete(DeltasCols) = {}) => a_pc \in {"ols_levels", "ols_deltas"}

\* C6 as stated: each model is fitted on exactly its complete rows, and with none
\* the call fails with an error that names the model.
C6_FailureNamesModel ==
    /\ RowsOfEachModel
    /\ LevelsFailed => ContainsNoCase(a_err.msg, <<"l","e","v","e","l","s">>) \/ ContainsNoCase(a_err.msg, <<"e","m","i","s","s","i","o","n","s","_","k","t","c","o","2","e">>)
    /\ DeltasFailed => ContainsNoCase(a_err.msg, <<"d","e","l","t","a","s">>) \/ ContainsNoCase(a_err.msg, <<"d","_","e","m","i","s","s","i","o","n","s">>)

\* C6 amended: each model is fitted on exactly its complete rows, and with none
\* the call fails, without a fit, with the ValueError "No rows available for OLS
\* after dropping NA.", which is the same for both models.
C6_FailureSameForBothModels ==
    /\ RowsOfEachModel
    /\ FitFailed => a_err = [err |-> "ValueError", msg |-> <<"N","o"," ","r","o","w","s"," ","a","v","a","i","l","a","b","l","e"," ","f","o","r"," ","O","L","S"," ","a","f","t","e","r"," ","d","r","o","p","p","i","n","g"," ","N","A",".">>]

\* the levels model keeps row 1 and the row after a null row; the deltas model drops both
C6_Witness ==
    /\ a_pc = "done"
    /\ NRows = 5
    /\ ols_levels.rows = <<1, 3, 4, 5>>
    /\ ols_deltas.rows = <<4, 5>>

DeltaOf(d, s) ==
    \A i \in 1..NRows :
        /\ i = 1 => IsNull(d[i])
        /\ (i > 1 /\ NotNull(s[i]) /\ NotNull(s[i - 1])) => d[i] = Num(Val(s[i]) - Val(s[i - 1]))
        /\ (i > 1 /\ (IsNull(s[i]) \/ IsNull(s[i - 1]))) => IsNull(d[i])

\* C9: a delta is null on the first row, value[i] - value[i-1] of the row before
\* when both are non-null, whatever the years of the two rows, and null otherwise.
C9_DeltaOfPreviousRow ==
    Derived =>
        /\ DeltaOf(df.d_emissions, df.emissions_ktco2e)
        /\ DeltaOf(df.d_electricity, df.electricity_gwh)
        /\ DeltaOf(df.d_vehicles, df.vehicles_first_reg)

\* rows 2001 and 2003: the delta is taken across the missing year
C9_Witness ==
    /\ Derived /\ NRows >= 2
    /\ df.year[1] = YearFirst /\ df.year[2] = YearFirst + 2
    /\ df.d_emissions[2] = Num(2) /\ df.d_electricity[2] = Num(1) /\ df.d_vehicles[2] = Num(0)

----------------------------------------------------------------------------
(* Specifications *)

AIdle == 
    /\ a_pc = "idle" /\ a_in = MissingFile /\ df = <<>> /\ corr_summary = <<>> /\ a_files = {} /\ a_err = NoError
    /\ lagcorr_elec = <<>> /\ lagcorr_veh = <<>> /\ ols_levels = NoResult /\ ols_deltas = NoResult

\* preprocess main
Init == PInit /\ UIdle /\ AIdle
Next == PNext
Spec == Init /\ [][Next]_vars

\* one extractor call
InitLoad == UInit /\ PIdle /\ AIdle
NextLoad == UNext
SpecLoad == InitLoad /\ [][NextLoad]_vars

\* analysis main
InitAnalysis == AInit /\ PIdle /\ UIdle
NextAnalysis == ANext
SpecAnalysis == InitAnalysis /\ [][NextAnalysis]_vars

====
